---- MODULE Spec2Model ----
(***************************************************************************)
(* A model of dicfg's ConfigReader (src/dicfg/reader.py): reading the main *)
(* config, presets, the user config and the command-line overrides,        *)
(* including referenced config files, fusing the context keys of every     *)
(* source and merging the fused sources.                                   *)
(***************************************************************************)
EXTENDS Integers, Sequences, FiniteSets, TLC

VARIABLES
    reader,  \* the constructed ConfigReader (its private fields)
    argv,    \* sys.argv[1:], the process's argument list
    given,   \* the object the caller handed to the call (read's user_config,
             \* the config of _fuse_config and _include_configs), as it is now
    call,    \* the operation invoked last, with the arguments it was given
    ret,     \* what that operation returned ([val]) or raised ([exc])
    heap     \* the dict objects of the object specification, by address

vars == <<reader, argv, given, call, ret, heap>>

---------------------------------------------------------------------------
(* Bounds of the model. *)
MaxInt == 2          \* integer scalars are 1..MaxInt
MaxPresets == 2      \* presets tuples have at most this many names
MaxArgs == 2         \* argument lists have at most this many tokens

---------------------------------------------------------------------------
(* Config values: a tagged sum of scalars, sequences and mappings. A string*)
(* is the sequence of its lexemes, so that suffixes and separators can be  *)
(* computed from it; a mapping's keys are plain strings.                   *)
Null == [t |-> "none"]
Num(n) == [t |-> "int", v |-> n]
Str(s) == [t |-> "str", s |-> s]
List(e) == [t |-> "list", e |-> e]
\* (m @@ <<>> is m, held by TLC as an enumerated function)
Dict(m) == [t |-> "dict", m |-> m @@ <<>>]
EmptyDict == Dict(<<>>)

D1(k1, v1) == Dict(k1 :> v1)
D2(k1, v1, k2, v2) == Dict(k1 :> v1 @@ k2 :> v2)
D3(k1, v1, k2, v2, k3, v3) == Dict(k1 :> v1 @@ k2 :> v2 @@ k3 :> v3)

IsDict(v) == v.t = "dict"
IsStr(v) == v.t = "str"
IsList(v) == v.t = "list"

Keys(d) == DOMAIN d.m
Has(d, key) == IsDict(d) /\ key \in Keys(d)

Val(v) == [val |-> v]
Raise(e) == [exc |-> e]
Ok(r) == "val" \in DOMAIN r
Raised(r) == "exc" \in DOMAIN r

\* body(value), with value evaluated once, before the body.
With(value, body(_)) == CHOOSE result \in {body(v) : v \in {value}} : TRUE

Front(s) == SubSeq(s, 1, Len(s) - 1)
Last(s) == s[Len(s)]

---------------------------------------------------------------------------
(* dicfg.config.merge, which reader.py imports: sources are processed left *)
(* to right into an accumulator; mapping against mapping merges            *)
(* recursively, anything else is replaced by the later value.              *)
RECURSIVE merge2(_, _)
merge2(acc, source) ==
    Dict([key \in Keys(acc) \cup Keys(source) |->
            IF key \notin Keys(source) THEN acc.m[key]
            ELSE IF key \notin Keys(acc) THEN source.m[key]
            ELSE IF IsDict(acc.m[key]) /\ IsDict(source.m[key])
                 THEN merge2(acc.m[key], source.m[key])
            ELSE source.m[key]])

RECURSIVE mergeFromRight(_)
mergeFromRight(configs) ==
    IF configs = <<>> THEN EmptyDict
    ELSE merge2(Head(configs), mergeFromRight(Tail(configs)))

RECURSIVE merge(_)
merge(configs) ==
    IF configs = <<>> THEN EmptyDict
    ELSE merge2(merge(Front(configs)), Last(configs))

---------------------------------------------------------------------------
(* Strings. Every lexeme is a non-empty piece of text; "." is a lexeme of  *)
(* its own, and names hold no directory separator.                         *)
ConfigYml == <<"config", ".", "yml">>
AltYml == <<"alt", ".", "yml">>
EmptyYml == <<"empty", ".", "yml">>
DbYml == <<"db", ".", "yml">>
NetJson == <<"net", ".", "json">>
OnlyYaml == <<"only", ".", "yaml">>
LoopYml == <<"loop", ".", "yml">>
GoneYml == <<"gone", ".", "yml">>
HiddenYml == <<".", "yml">>
NotesTxt == <<"notes", ".", "txt">>
FastYml == <<"fast", ".", "yml">>
BigYml == <<"big", ".", "yml">>
UserYml == <<"user", ".", "yml">>
Hello == <<"hello">>

\* str.rfind(".") over the lexemes: the last index holding ".", 0 when none.
RFindDot(name) ==
    LET dots == {i \in 1..Len(name) : name[i] = "."}
    IN IF dots = {} THEN 0 ELSE CHOOSE i \in dots : \A j \in dots : j <= i

\* pathlib's PurePath.suffix: the name from its last dot on, when that dot is
\* neither the first nor the last character of the name.
suffix(name) ==
    LET i == RFindDot(name)
    IN IF 1 < i /\ i < Len(name) THEN SubSeq(name, i, Len(name)) ELSE <<>>

_FILE_READERS == {<<".", "json">>, <<".", "yml">>, <<".", "yaml">>}

\* A path: a directory and a file name in it.
Path(dir, name) == [t |-> "path", dir |-> dir, name |-> name]
exists(fs, path) == <<path.dir, path.name>> \in DOMAIN fs

\* An entry of a search-path tuple: a directory, or None.
Dir(d) == [t |-> "dir", d |-> d]

\* _open_json_config and _open_yaml_config: the parsed contents of the file.
OpenConfig(fs, path) ==
    IF exists(fs, path) THEN Val(fs[<<path.dir, path.name>>])
    ELSE Raise("FileNotFoundError")

\* A search that returns the last search path holding the file.
_search_configLast(fs, config_name, search_paths) ==
    LET holding == {i \in 1..Len(search_paths) :
                      /\ search_paths[i] # Null
                      /\ exists(fs, Path(search_paths[i].d, config_name))}
    IN IF holding = {} THEN Raise("ConfigNotFoundError")
       ELSE Val(Path(search_paths[CHOOSE i \in holding :
                                    \A j \in holding : j <= i].d, config_name))

---------------------------------------------------------------------------
(* _search_config: the first search path, in order, that holds the file.  *)
RECURSIVE _search_config(_, _, _)
_search_config(fs, config_name, search_paths) ==
    IF search_paths = <<>> THEN Raise("ConfigNotFoundError")
    ELSE IF Head(search_paths) = Null
         THEN _search_config(fs, config_name, Tail(search_paths))
    ELSE IF exists(fs, Path(Head(search_paths).d, config_name))
         THEN Val(Path(Head(search_paths).d, config_name))
    ELSE _search_config(fs, config_name, Tail(search_paths))

---------------------------------------------------------------------------
(* _include_configs. A dict is changed in place, so a call that raises     *)
(* leaves the object it was given partly changed: a result that raises     *)
(* carries, as obj, the state of that object when the exception left it.   *)
\* The order in which a dict holds its keys (the model's dicts hold their
\* keys in this one order).
KeyOrder == <<"app", "other", "default", "base", "train", "test",
              "lr", "db", "next", "host", "opt">>
items(config) == SelectSeq(KeyOrder, LAMBDA key : key \in Keys(config))

RaiseIn(e, obj) == [exc |-> e, obj |-> obj]

\* The depth of nested _include_configs calls the interpreter's stack takes.
MaxNesting == 6

RECURSIVE _include_configs(_, _, _, _)
RECURSIVE _include_configs_dict(_, _, _, _, _)

_include_configs_str(fs, config, search_paths, depth) ==
    IF suffix(config.s) \in _FILE_READERS
    THEN With(_search_config(fs, config.s, search_paths), LAMBDA config_path :
           IF Raised(config_path) THEN RaiseIn(config_path.exc, config)
           ELSE With(_include_configs(fs, OpenConfig(fs, config_path.val).val,
                                      search_paths, depth + 1),
                     LAMBDA included :
                       IF Raised(included) THEN RaiseIn(included.exc, config)
                       ELSE included))
    ELSE Val(config)

_include_configs_dict(fs, config, keys, search_paths, depth) ==
    IF keys = <<>> THEN Val(config)
    ELSE With(_include_configs(fs, config.m[Head(keys)], search_paths, depth + 1),
              LAMBDA value :
                IF Raised(value)
                THEN RaiseIn(value.exc,
                             Dict([config.m EXCEPT ![Head(keys)] = value.obj]))
                ELSE With(Dict([config.m EXCEPT ![Head(keys)] = value.val]),
                          LAMBDA changed :
                            _include_configs_dict(fs, changed, Tail(keys),
                                                  search_paths, depth)))

_include_configs(fs, config, search_paths, depth) ==
    IF depth > MaxNesting THEN RaiseIn("RecursionError", config)
    ELSE IF IsStr(config) THEN _include_configs_str(fs, config, search_paths, depth)
    ELSE IF IsDict(config)
         THEN _include_configs_dict(fs, config, items(config), search_paths, depth)
    ELSE Val(config)

---------------------------------------------------------------------------
(* The command line. An argument is a sequence of lexemes, "=" and "."     *)
(* being lexemes of their own.                                             *)
\* str.split(sep): the pieces between the separators.
RECURSIVE split(_, _)
split(text, sep) ==
    LET at == {i \in 1..Len(text) : text[i] = sep}
    IN IF at = {} THEN <<text>>
       ELSE LET i == CHOOSE i \in at : \A j \in at : i <= j
            IN <<SubSeq(text, 1, i - 1)>> \o split(SubSeq(text, i + 1, Len(text)), sep)

\* The text of a piece as one key.
RECURSIVE Join(_)
Join(text) == IF text = <<>> THEN "" ELSE Head(text) \o Join(Tail(text))

Digits == {"0", "1", "2", "3", "4", "5", "6", "7", "8", "9"}
Words == {"hello", "db", "yml", "gone", "net", "json", "fast"}
DigitValue(d) == CHOOSE n \in 0..9 : ToString(n) = d

\* ast.literal_eval on the text of a value (of digits, words, "." and "="
\* lexemes): a one-digit number is evaluated, a bare name or a dotted name is
\* a ValueError (a malformed node), text that is no Python expression (the
\* empty text, a name next to a digit, a leading or trailing dot) is a
\* SyntaxError.
IsDottedName(text) ==
    /\ Len(text) % 2 = 1
    /\ \A i \in 1..Len(text) :
          IF i % 2 = 1 THEN text[i] \in Words ELSE text[i] = "."

literal_eval(text) ==
    IF Len(text) = 1 /\ text[1] \in Digits THEN Val(Num(DigitValue(text[1])))
    ELSE IF IsDottedName(text) THEN Raise("ValueError")
    ELSE Raise("SyntaxError")

\* ast.literal_eval("'" + value + "'"): the text as a string, when it holds
\* nothing that ends or breaks the quoted literal.
literal_eval_quoted(text) ==
    IF \A i \in 1..Len(text) : text[i] \in Words \cup Digits \cup {".", "="}
    THEN Val(Str(text))
    ELSE Raise("SyntaxError")

RECURSIVE _create_dict_from_keys(_, _)
_create_dict_from_keys(keys, value) ==
    IF Len(keys) <= 1
    THEN With(literal_eval(value), LAMBDA evaluated :
           With(IF Raised(evaluated) /\ evaluated.exc = "ValueError"
                THEN literal_eval_quoted(value)
                ELSE evaluated,
                LAMBDA parsed :
                  IF Raised(parsed) THEN parsed
                  ELSE Val(Dict(Join(keys[1]) :> parsed.val))))
    ELSE With(_create_dict_from_keys(Tail(keys), value), LAMBDA rest :
           IF Raised(rest) THEN rest
           ELSE Val(Dict(Join(keys[1]) :> rest.val)))

\* One turn of the loop of _read_cli: dicts with the dict of arg appended,
\* when arg holds "=".
AppendCliDict(dicts, arg) ==
    IF \E i \in 1..Len(arg) : arg[i] = "="
    THEN With(split(arg, "="), LAMBDA parts :
           IF Len(parts) # 2 THEN Raise("ValueError")
           ELSE With(_create_dict_from_keys(split(parts[1], "."), parts[2]),
                     LAMBDA dict :
                       IF Raised(dict) THEN dict
                       ELSE Val(Append(dicts, dict.val))))
    ELSE Val(dicts)

\* The loop of _read_cli over the arguments left, from the dicts so far.
RECURSIVE CliDicts(_, _)
CliDicts(dicts, args) ==
    IF args = <<>> THEN Val(dicts)
    ELSE With(AppendCliDict(dicts, Head(args)), LAMBDA appended :
           IF Raised(appended) THEN appended
           ELSE CliDicts(appended.val, Tail(args)))

_read_cli(self, args) ==
    With(CliDicts(<<>>, args), LAMBDA dicts :
      IF Raised(dicts) THEN dicts
      ELSE With(merge(dicts.val), LAMBDA cli_config :
             IF self.name \in Keys(cli_config)
             THEN Val(cli_config.m[self.name])
             ELSE Val(EmptyDict)))

---------------------------------------------------------------------------
(* ConfigReader. *)
\* __init__: the reader's fields, or ConfigNotFoundError when the main
\* config file does not exist.
ConfigReader(fs, name, main_config_path, presets_folder_name, default_key, context_keys, search_paths) ==
    IF ~exists(fs, main_config_path) THEN Raise("ConfigNotFoundError")
    ELSE Val([name |-> name,
              main_config_path |-> main_config_path,
              default_key |-> default_key,
              context_keys |-> context_keys,
              search_paths |-> search_paths,
              configs_folder |-> main_config_path.dir,
              presets_folder |-> main_config_path.dir \o "/" \o presets_folder_name])

_set_search_paths(self, user_config_search_path, search_paths) ==
    <<Dir("."), user_config_search_path, Dir(self.configs_folder),
      Dir(self.presets_folder)>> \o search_paths

\* _read: the file's contents by the reader its suffix names, {} for an
\* empty file.
_read(fs, config_path) ==
    IF suffix(config_path.name) \notin _FILE_READERS THEN Raise("KeyError")
    ELSE With(OpenConfig(fs, config_path), LAMBDA config :
           IF Raised(config) THEN config
           ELSE IF config.val = Null THEN Val(EmptyDict)
           ELSE config)

\* _read_presets over the presets left, from the configs read so far.
RECURSIVE _read_presets(_, _, _, _)
_read_presets(fs, self, configs, presets) ==
    IF presets = <<>> THEN Val(configs)
    ELSE With(_read(fs, Path(self.presets_folder, Head(presets))), LAMBDA config :
           IF Raised(config) THEN config
           ELSE _read_presets(fs, self, Append(configs, config.val), Tail(presets)))

\* A user_config argument: None, a dict, or the path of a file.
IsPath(user_config) == user_config.t = "path"

Subscript(config, key) ==
    IF ~IsDict(config) THEN Raise("TypeError")
    ELSE IF key \in Keys(config) THEN Val(config.m[key])
    ELSE Raise("KeyError")

_read_user_config(fs, self, user_config) ==
    IF IsPath(user_config)
    THEN With(_read(fs, user_config), LAMBDA config :
           IF Raised(config) THEN config ELSE Subscript(config.val, self.name))
    ELSE IF IsDict(user_config) THEN Subscript(user_config, self.name)
    ELSE Val(EmptyDict)

SeedEmpty(self, config) == EmptyDict

Seed(self, config) ==
    IF "default" \in Keys(config) THEN config.m["default"] ELSE EmptyDict

Range(seq) == {seq[i] : i \in 1..Len(seq)}

\* _fuse_config as it would be with the seed merged over the config.
_fuse_configSeedLast(fs, self, config, context_keys, search_paths) ==
    With(_include_configs(fs, config, search_paths, 0), LAMBDA included :
      With(IF ~IsDict(config) THEN config
           ELSE IF Raised(included) THEN included.obj ELSE included.val,
           LAMBDA obj :
             IF Raised(included) THEN RaiseIn(included.exc, obj)
             ELSE IF ~IsDict(included.val) THEN RaiseIn("AttributeError", obj)
             ELSE With(Dict([key \in Range(context_keys) |->
                               Seed(self, included.val)]),
                       LAMBDA fused_config :
                         [val |-> merge(<<included.val, fused_config>>),
                          obj |-> obj])))

\* _fuse_config of a reader with at least one context key. obj is the state
\* in which the call leaves the object it was given.
_fuse_config(fs, self, config, context_keys, search_paths) ==
    With(_include_configs(fs, config, search_paths, 0), LAMBDA included :
      With(IF ~IsDict(config) THEN config
           ELSE IF Raised(included) THEN included.obj ELSE included.val,
           LAMBDA obj :
             IF Raised(included) THEN RaiseIn(included.exc, obj)
             ELSE IF ~IsDict(included.val) THEN RaiseIn("AttributeError", obj)
             ELSE With(Dict([key \in Range(context_keys) |->
                               Seed(self, included.val)]),
                       LAMBDA fused_config :
                         [val |-> merge(<<fused_config, included.val>>),
                          obj |-> obj])))

\* _fuse_configs over the configs left, from the configs fused so far. objs
\* are the states in which the call leaves the objects it was given.
RECURSIVE FuseFrom(_, _, _, _, _, _, _)
FuseFrom(fs, self, fused, objs, configs, context_keys, search_paths) ==
    IF configs = <<>> THEN [val |-> fused, objs |-> objs]
    ELSE With(_fuse_config(fs, self, Head(configs), context_keys, search_paths),
              LAMBDA config :
                IF Raised(config)
                THEN [exc |-> config.exc,
                      objs |-> Append(objs, config.obj) \o Tail(configs)]
                ELSE FuseFrom(fs, self, Append(fused, config.val),
                              Append(objs, config.obj), Tail(configs),
                              context_keys, search_paths))

_fuse_configs(fs, self, configs, context_keys, search_paths) ==
    FuseFrom(fs, self, <<>>, <<>>, configs, context_keys, search_paths)

\* The places of the sources in the tuple read() fuses and merges.
SourcesCliBeforeUser(self_config, preset_configs, user_config, cli_config) ==
    <<self_config>> \o preset_configs \o <<cli_config, user_config>>

SourcesInOrder(self_config, preset_configs, user_config, cli_config) ==
    <<self_config>> \o preset_configs \o <<user_config, cli_config>>

\* The caller's user_config dict once the sub-tree read() took from it has
\* become user_object.
UserAfter(self, user_config, user_object) ==
    IF IsDict(user_config) /\ self.name \in Keys(user_config)
    THEN Dict([user_config.m EXCEPT ![self.name] = user_object])
    ELSE user_config

\* The sources read() reads, in the order in which it reads them.
ReadSources(fs, self, args, user_config, presets) ==
    With(_read(fs, self.main_config_path), LAMBDA self_config :
      IF Raised(self_config) THEN self_config
      ELSE With(_read_presets(fs, self, <<>>, presets), LAMBDA preset_configs :
        IF Raised(preset_configs) THEN preset_configs
        ELSE With(_read_user_config(fs, self, user_config), LAMBDA user_read :
          IF Raised(user_read) THEN user_read
          ELSE With(_read_cli(self, args), LAMBDA cli_config :
            IF Raised(cli_config) THEN cli_config
            ELSE Val(SourcesInOrder(self_config.val, preset_configs.val,
                                    user_read.val, cli_config.val))))))

\* read(): ret is what the call returns or raises, user the state in which it
\* leaves the caller's user_config.
read(fs, self, args, user_config, presets) ==
    With(_set_search_paths(self,
                           IF IsPath(user_config) THEN Dir(user_config.dir) ELSE Null,
                           self.search_paths),
         LAMBDA search_paths :
      With(ReadSources(fs, self, args, user_config, presets), LAMBDA configs :
        IF Raised(configs) THEN [ret |-> Raise(configs.exc), user |-> user_config]
        ELSE With(_fuse_configs(fs, self, configs.val, self.context_keys,
                                search_paths),
                  LAMBDA fused :
                    With(UserAfter(self, user_config,
                                   fused.objs[Len(configs.val) - 1]),
                         LAMBDA after :
                           IF Raised(fused)
                           THEN [ret |-> Raise(fused.exc), user |-> after]
                           ELSE [ret |-> Val(merge(fused.val)), user |-> after]))))

---------------------------------------------------------------------------
(* The files on disk and the inputs of the reader specification. *)
DictsOver(keys, vals) ==
    {Dict(f) : f \in UNION {[ks -> vals] : ks \in SUBSET keys}}

Disk ==
    ( <<"configs", ConfigYml>> :>
          D2("default", D1("lr", Num(1)),
             "train", D2("lr", Num(2), "db", Str(DbYml))) )
    @@ ( <<"configs", AltYml>> :>
          D3("base", D1("lr", Num(7)),
             "test", D1("db", Str(NetJson)),
             "train", Num(8)) )
    @@ ( <<"configs", EmptyYml>> :> Null )
    @@ ( <<"configs", DbYml>> :> D1("host", Num(1)) )
    @@ ( <<"extra", DbYml>> :> D1("host", Num(2)) )
    @@ ( <<"home", DbYml>> :> D1("host", Num(3)) )
    @@ ( <<"extra", OnlyYaml>> :> D1("lr", Num(9)) )
    @@ ( <<"configs", NetJson>> :> D2("db", Str(DbYml), "lr", Num(6)) )
    @@ ( <<".", LoopYml>> :> D1("next", Str(LoopYml)) )
    @@ ( <<".", HiddenYml>> :> D1("host", Num(4)) )
    @@ ( <<"configs/presets", FastYml>> :> D1("train", D1("lr", Num(3))) )
    @@ ( <<"configs/presets", BigYml>> :>
          D2("default", D1("lr", Num(4)), "train", D1("db", Str(OnlyYaml))) )
    @@ ( <<"home", UserYml>> :>
          D2("app", D1("train", D1("db", Str(DbYml))), "other", D1("lr", Num(1))) )

MainPaths == {Path("configs", ConfigYml), Path("configs", AltYml),
              Path("configs", EmptyYml), Path("configs", GoneYml)}
DefaultKeys == {"default", "base"}
ContextKeys == {<<"train", "test">>, <<"train">>}
SearchPaths == {<<>>, <<Dir("extra")>>}

\* Command-line arguments.
Arg(keys, value) == keys \o <<"=">> \o value
Tokens ==
    { Arg(<<"app", ".", "train", ".", "lr">>, <<"5">>),
      Arg(<<"app", ".", "train", ".", "lr">>, <<"hello">>),
      Arg(<<"app", ".", "default", ".", "db">>, DbYml),
      Arg(<<"other", ".", "lr">>, <<"1">>),
      Arg(<<"app">>, <<"7">>),
      Arg(<<"app", ".", "lr">>, <<>>),
      Arg(<<"app", ".", "lr">>, <<"1", "=", "2">>),
      <<"verbose">> }

SeqsUpTo(S, n) == UNION {[1..len -> S] : len \in 0..n}

Argvs ==
    { <<>>,
      <<Arg(<<"app", ".", "train", ".", "lr">>, <<"5">>)>>,
      <<Arg(<<"app", ".", "default", ".", "lr">>, <<"6">>), <<"verbose">>>>,
      <<Arg(<<"app", ".", "test", ".", "db">>, GoneYml)>>,
      <<Arg(<<"app", ".", "train">>, <<"7">>)>>,
      <<Arg(<<"app">>, <<"7">>)>> }

\* user_config arguments.
UserLeaves == {D1("lr", Num(n)) : n \in 1..MaxInt}
                 \cup {D1("db", Str(NetJson)), Str(DbYml), Str(GoneYml)}
UserTrees == DictsOver({"default", "train"}, UserLeaves)
UserConfigs ==
    {D1("app", tree) : tree \in UserTrees}
        \cup {Null, D1("other", D1("lr", Num(1))), D1("app", Str(DbYml)),
              Path("home", UserYml), Path("home", GoneYml)}

PresetNames == {FastYml, BigYml, GoneYml}

\* Arguments of _fuse_config and _include_configs.
FuseLeaves == {D1("lr", Num(n)) : n \in 1..MaxInt}
                 \cup {D1("db", Str(DbYml)), Str(NetJson), Num(1)}
FuseArgs == DictsOver({"default", "base", "train"}, FuseLeaves)
               \cup {Str(DbYml), Num(1)}

IncludeStrings == {DbYml, NetJson, OnlyYaml, LoopYml, GoneYml, HiddenYml,
                   EmptyYml, NotesTxt, Hello}
IncludeLeaves == {Str(text) : text \in IncludeStrings}
                    \cup {Num(1), List(<<Str(DbYml), Num(1)>>)}
IncludeArgs == IncludeLeaves
                  \cup DictsOver({"db", "next"},
                                 IncludeLeaves \cup {D1("db", leaf) : leaf \in IncludeLeaves})

UserSearchPaths == {Null, Dir("home")}

---------------------------------------------------------------------------
(* The reader specification: a constructed reader and a call on it. No     *)
(* call changes the reader, the disk or the argument list, so the calls    *)
(* are followed one at a time from the state construction leaves.          *)
Idle == call.op = "__init__"

Init ==
    /\ \E main_config_path \in MainPaths, default_key \in DefaultKeys,
          context_keys \in ContextKeys, search_paths \in SearchPaths :
          LET self == ConfigReader(Disk, "app", main_config_path, "presets",
                                   default_key, context_keys, search_paths)
          IN Ok(self) /\ reader = self.val
    /\ argv \in Argvs
    /\ given = Null
    /\ call = [op |-> "__init__"]
    /\ ret = Val(Null)
    /\ heap = <<>>

Read ==
    /\ Idle
    /\ \E user_config \in UserConfigs, presets \in SeqsUpTo(PresetNames, MaxPresets) :
        \E done \in {read(Disk, reader, argv, user_config, presets)} :
           /\ call' = [op |-> "read", user_config |-> user_config, presets |-> presets]
           /\ ret' = done.ret
           /\ given' = done.user
           /\ UNCHANGED <<reader, argv, heap>>

FuseConfig ==
    /\ Idle
    /\ \E config \in FuseArgs, user_config_search_path \in UserSearchPaths :
        \E search_paths \in {_set_search_paths(reader, user_config_search_path,
                                                 reader.search_paths)} :
        \E done \in {_fuse_config(Disk, reader, config, reader.context_keys,
                                  search_paths)} :
           /\ call' = [op |-> "_fuse_config", config |-> config,
                       search_paths |-> search_paths]
           /\ ret' = IF Raised(done) THEN Raise(done.exc) ELSE Val(done.val)
           /\ given' = done.obj
           /\ UNCHANGED <<reader, argv, heap>>

IncludeConfigs ==
    /\ Idle
    /\ \E config \in IncludeArgs, user_config_search_path \in UserSearchPaths :
        \E search_paths \in {_set_search_paths(reader, user_config_search_path,
                                                 reader.search_paths)} :
        \E done \in {_include_configs(Disk, config, search_paths, 0)} :
           /\ call' = [op |-> "_include_configs", config |-> config,
                       search_paths |-> search_paths]
           /\ ret' = IF Raised(done) THEN Raise(done.exc) ELSE Val(done.val)
           /\ given' = IF ~IsDict(config) THEN config
                      ELSE IF Raised(done) THEN done.obj ELSE done.val
           /\ UNCHANGED <<reader, argv, heap>>

ReadCli ==
    /\ Idle
    /\ \E args \in SeqsUpTo(Tokens, MaxArgs) :
        /\ call' = [op |-> "_read_cli", args |-> args]
        /\ ret' = _read_cli(reader, args)
        /\ given' = Null
        /\ UNCHANGED <<reader, argv, heap>>

Next == Read \/ FuseConfig \/ IncludeConfigs \/ ReadCli

Spec == Init /\ [][Next]_vars

---------------------------------------------------------------------------
(* What the properties of a call speak of. *)
\* The key paths a value defines, and the value at a key path.
RECURSIVE Paths(_)
Paths(v) ==
    {<<>>} \cup (IF IsDict(v)
                 THEN UNION {{<<key>> \o p : p \in Paths(v.m[key])} : key \in Keys(v)}
                 ELSE {})

RECURSIVE At(_, _)
At(v, p) == IF p = <<>> THEN v ELSE At(v.m[Head(p)], Tail(p))

Defines(v, p) == p \in Paths(v)
\* v holds a scalar or a sequence at p.
HoldsLeaf(v, p) == Defines(v, p) /\ ~IsDict(At(v, p))
ProperPrefixes(p) == {SubSeq(p, 1, n) : n \in 0..(Len(p) - 1)}
Max(S) == CHOOSE i \in S : \A j \in S : j <= i

\* The search paths of a read() call.
ReadSearchPaths ==
    _set_search_paths(reader,
                      IF IsPath(call.user_config) THEN Dir(call.user_config.dir)
                      ELSE Null,
                      reader.search_paths)

\* The four kinds of source of a read() call, each as it was read.
MainSource == _read(Disk, reader.main_config_path).val
PresetSources == _read_presets(Disk, reader, <<>>, call.presets).val
UserSource == _read_user_config(Disk, reader, call.user_config).val
CliSource == _read_cli(reader, argv).val

\* The sources by increasing precedence: main config, presets in the order
\* given, user config, command line.
ByPrecedence == <<MainSource>> \o PresetSources \o <<UserSource, CliSource>>

\* Each source of a read() call fused on its own, by increasing precedence.
FusedByPrecedence ==
    [i \in 1..Len(ByPrecedence) |->
        _fuse_config(Disk, reader, ByPrecedence[i], reader.context_keys,
                     ReadSearchPaths).val]

\* Each source of a read() call with its files included, by increasing
\* precedence.
IncludedByPrecedence ==
    [i \in 1..Len(ByPrecedence) |->
        _include_configs(Disk, ByPrecedence[i], ReadSearchPaths, 0).val]

ReadReturned == call.op = "read" /\ Ok(ret)

---------------------------------------------------------------------------
(* The order of precedence of the sources. *)
\* The fused sources that hold a scalar or a sequence at p.
LeafHolders(fused, p) == {i \in 1..Len(fused) : HoldsLeaf(fused[i], p)}
Conflicting(fused, p) ==
    \E i, j \in LeafHolders(fused, p) : At(fused[i], p) # At(fused[j], p)

\* A source that holds a mapping at p, or a scalar or a sequence above p.
Displaces(config, p) ==
    \/ Defines(config, p) /\ IsDict(At(config, p))
    \/ \E q \in ProperPrefixes(p) : HoldsLeaf(config, q)

LatestLeafWins(fused, p) ==
    /\ Defines(ret.val, p)
    /\ At(ret.val, p) = At(fused[Max(LeafHolders(fused, p))], p)

\* C1 as stated: at every key path at which two or more fused sources hold
\* conflicting scalar or sequence values, read() returns the value of the
\* latest of them in the order main config, presets, user config, CLI.
PrecedenceAsStated ==
    ReadReturned =>
        LET fused == FusedByPrecedence
        IN \A p \in UNION {Paths(fused[i]) : i \in 1..Len(fused)} :
              Conflicting(fused, p) => LatestLeafWins(fused, p)

\* C1, amended: at every key path at which two or more fused sources hold
\* conflicting scalar or sequence values and no source later than the latest
\* of them holds a mapping at the path or a scalar or sequence above it,
\* read() returns the value of the latest of them in the order main config,
\* presets, user config, CLI.
PrecedenceOfSources ==
    ReadReturned =>
        LET fused == FusedByPrecedence
        IN \A p \in UNION {Paths(fused[i]) : i \in 1..Len(fused)} :
              (/\ Conflicting(fused, p)
               /\ \A j \in 1..Len(fused) :
                     j > Max(LeafHolders(fused, p)) => ~Displaces(fused[j], p))
              => LatestLeafWins(fused, p)

\* A read() where main config, two presets, user config and command line
\* all set train.lr, each to another value, and the command line's stands.
PrecedenceWitness ==
    /\ ReadReturned
    /\ Len(call.presets) = 2
    /\ LET fused == FusedByPrecedence
           p == <<"train", "lr">>
       IN /\ LeafHolders(fused, p) = 1..5
          /\ \A i, j \in 1..5 : i # j => At(fused[i], p) # At(fused[j], p)
          /\ At(ret.val, p) = At(CliSource, p)

---------------------------------------------------------------------------
(* Fusing the context keys of a source. *)
\* The deep merge of a sub-tree over the sub-tree it inherits from.
Overlay(inherited, own) ==
    IF IsDict(inherited) /\ IsDict(own) THEN merge(<<inherited, own>>) ELSE own

\* The entry of a context key in a fused source: the source's sub-tree under
\* default_key, the empty mapping when it has none, with the source's own
\* entry for the context key laid over it.
FusedEntry(config, default_key, key) ==
    LET inherited == IF default_key \in Keys(config) THEN config.m[default_key]
                     ELSE EmptyDict
    IN IF key \in Keys(config) THEN Overlay(inherited, config.m[key])
       ELSE inherited

FuseReturned == call.op = "_fuse_config" /\ IsDict(call.config) /\ Ok(ret)

\* C2: the result of fusing a source mapping holds every declared context
\* key, with the source's "default" sub-tree (the empty mapping when there is
\* none) deep-merged with the source's own entry for the key; and what
\* read() returns holds every declared context key.
EveryContextKeyFused ==
    /\ FuseReturned =>
          \A key \in Range(reader.context_keys) :
              /\ key \in Keys(ret.val)
              /\ ret.val.m[key] = FusedEntry(given, "default", key)
    /\ ReadReturned => Range(reader.context_keys) \subseteq Keys(ret.val)

\* A source with a "default" sub-tree and an entry of its own for "train"
\* only, fused for the context keys "train" and "test": "test" holds the
\* default, "train" the default with the own entry over it.
EveryContextKeyFusedWitness ==
    /\ FuseReturned
    /\ reader.context_keys = <<"train", "test">>
    /\ "default" \in Keys(given) /\ "train" \in Keys(given)
    /\ "test" \notin Keys(given)
    /\ IsDict(given.m["default"]) /\ IsDict(given.m["train"])
    /\ Keys(given.m["default"]) # Keys(given.m["train"])
    /\ ret.val.m["test"] = given.m["default"]
    /\ ret.val.m["train"] # given.m["default"]
    /\ ret.val.m["train"] # given.m["train"]

\* C9: fusing a source seeds every context key with the source's sub-tree
\* under the reader's default_key.
SeededFromDefaultKey ==
    FuseReturned =>
        \A key \in Range(reader.context_keys) :
            /\ key \in Keys(ret.val)
            /\ ret.val.m[key] = FusedEntry(given, reader.default_key, key)

---------------------------------------------------------------------------
(* Defaults and context keys across the sources. *)
\* The sources of a read() call that define p under the context key or
\* under "default".
Definers(included, key, p) ==
    {i \in 1..Len(included) :
        \/ Has(included[i], key) /\ Defines(included[i].m[key], p)
        \/ Has(included[i], "default") /\ Defines(included[i].m["default"], p)}

\* What a source gives for p under a context key: its own entry where it
\* defines p, its "default" entry otherwise.
OwnOverDefault(config, key, p) ==
    IF Has(config, key) /\ Defines(config.m[key], p) THEN At(config.m[key], p)
    ELSE At(config.m["default"], p)

\* C10: a scalar that read() returns at key path p of context key k is that
\* of the highest-precedence source that defines p under k or under
\* "default"; within that source the entry under k wins over the entry under
\* "default".
DefaultOfLaterSourceWins ==
    ReadReturned =>
        LET included == IncludedByPrecedence
        IN \A key \in Range(reader.context_keys) :
              \A p \in Paths(ret.val.m[key]) :
                  ~IsDict(At(ret.val.m[key], p)) =>
                      /\ Definers(included, key, p) # {}
                      /\ At(ret.val.m[key], p) =
                            OwnOverDefault(included[Max(Definers(included, key, p))],
                                           key, p)

\* A read() where the main config sets train.lr itself, a later source sets
\* lr under "default" only, and the later source's default is returned.
DefaultOfLaterSourceWinsWitness ==
    /\ ReadReturned
    /\ LET included == IncludedByPrecedence
           p == <<"lr">>
       IN /\ Has(included[1], "train") /\ HoldsLeaf(included[1].m["train"], p)
          /\ \E i \in 2..Len(included) :
                /\ i = Max(Definers(included, "train", p))
                /\ ~Has(included[i], "train")
                /\ HoldsLeaf(included[i].m["default"], p)
                /\ At(included[i].m["default"], p) # At(included[1].m["train"], p)
                /\ At(ret.val.m["train"], p) = At(included[i].m["default"], p)

---------------------------------------------------------------------------
(* Including the files a config names. *)
EndsWith(text, tail) ==
    Len(text) >= Len(tail)
        /\ SubSeq(text, Len(text) - Len(tail) + 1, Len(text)) = tail

\* A string that the includer is to replace by a file: by the letter of the
\* text ("ends"), or by the suffix of the file name ("suffix").
NamesConfigFile(text, reading) ==
    IF reading = "ends" THEN \E tail \in _FILE_READERS : EndsWith(text, tail)
    ELSE suffix(text) \in _FILE_READERS

\* The first search path, in order, in which the file exists.
FirstHolding(config_name, search_paths) ==
    LET holding == {i \in 1..Len(search_paths) :
                       /\ search_paths[i] # Null
                       /\ <<search_paths[i].d, config_name>> \in DOMAIN Disk}
    IN IF holding = {} THEN 0 ELSE CHOOSE i \in holding : \A j \in holding : i <= j

Missing == [t |-> "missing"]

\* A config with every file-naming string at top level or at a mapping value
\* replaced by the contents of the file, themselves expanded; chains of
\* inclusions are followed for at most `chain` files.
RECURSIVE Expanded(_, _, _, _)
Expanded(config, search_paths, reading, chain) ==
    IF IsStr(config) /\ NamesConfigFile(config.s, reading)
    THEN LET i == FirstHolding(config.s, search_paths)
         IN IF i = 0 \/ chain = 0 THEN Missing
            ELSE Expanded(Disk[<<search_paths[i].d, config.s>>], search_paths,
                          reading, chain - 1)
    ELSE IF IsDict(config)
         THEN Dict([key \in Keys(config) |->
                       Expanded(config.m[key], search_paths, reading, chain)])
    ELSE config

\* The strings a value holds at top level or at a mapping value.
RECURSIVE StringsOutsideSequences(_)
StringsOutsideSequences(v) ==
    IF IsStr(v) THEN {v.s}
    ELSE IF IsDict(v)
         THEN UNION {StringsOutsideSequences(v.m[key]) : key \in Keys(v)}
    ELSE {}

IncludeReturned == call.op = "_include_configs" /\ Ok(ret)

Included(reading) ==
    IncludeReturned =>
        /\ ret.val = Expanded(call.config, call.search_paths, reading, MaxNesting)
        /\ \A text \in StringsOutsideSequences(ret.val) :
              ~NamesConfigFile(text, reading)

\* C3 as stated: include replaces every string that ends in .json, .yml or
\* .yaml, at top level or at a mapping value, by the included contents of the
\* file in the first search path that holds it; the result holds no such
\* string outside sequences, and keys, other scalars and sequences are kept.
IncludedByEnding == Included("ends")

\* C3, amended: include replaces every string whose file name has the suffix
\* .json, .yml or .yaml after a non-empty stem (a name that is nothing but
\* the extension, such as ".yml", has no suffix and is kept), at top level or
\* at a mapping value, by the included contents of the file in the first
\* search path that holds it; the result holds no such string outside
\* sequences, and keys, other scalars and sequences are kept.
IncludedBySuffix == Included("suffix")

\* A mapping with a value naming a file that names a second file, beside a
\* sequence holding a file name: the chain is expanded, the sequence kept.
IncludedBySuffixWitness ==
    /\ IncludeReturned
    /\ Has(call.config, "db") /\ Has(call.config, "next")
    /\ call.config.m["db"] = Str(NetJson)
    /\ call.config.m["next"] = List(<<Str(DbYml), Num(1)>>)
    /\ ret.val.m["db"] = D2("db", D1("host", Num(1)), "lr", Num(6))
    /\ ret.val.m["next"] = call.config.m["next"]

---------------------------------------------------------------------------
(* The caller's objects. *)
\* C4: read() leaves the caller's user_config as it was, and fusing leaves
\* the source mapping it was handed as it was.
InputsNotMutated ==
    /\ ReadReturned => given = call.user_config
    /\ FuseReturned => given = call.config

---------------------------------------------------------------------------
(* Files that cannot be found. *)
MissingPreset ==
    \E i \in 1..Len(call.presets) :
        ~exists(Disk, Path(reader.presets_folder, call.presets[i]))

SourcesRead ==
    Ok(ReadSources(Disk, reader, argv, call.user_config, call.presets))

\* A source of the call names, at top level or at a mapping value, a file
\* that no search path holds.
MissingIncludeTarget ==
    /\ SourcesRead
    /\ \E i \in 1..Len(ByPrecedence) :
          Missing \in {Expanded(ByPrecedence[i], ReadSearchPaths, "suffix", MaxNesting)}
                         \cup {At(Expanded(ByPrecedence[i], ReadSearchPaths,
                                           "suffix", MaxNesting), p) :
                                 p \in Paths(Expanded(ByPrecedence[i], ReadSearchPaths,
                                                      "suffix", MaxNesting))}

\* C7: a read() that names a preset absent from the presets folder, or whose
\* sources name an include target that no search path holds, raises
\* ConfigNotFoundError and returns nothing.
MissingFileIsConfigNotFound ==
    call.op = "read" /\ (MissingPreset \/ MissingIncludeTarget) =>
        ret = Raise("ConfigNotFoundError")

---------------------------------------------------------------------------
(* The command line. *)
HasEquals(arg) == \E i \in 1..Len(arg) : arg[i] = "="
FirstEquals(arg) == CHOOSE i \in 1..Len(arg) : arg[i] = "=" /\ \A j \in 1..(i - 1) : arg[j] # "="

\* The single-path mapping of key path keys to value.
RECURSIVE SinglePath(_, _)
SinglePath(keys, value) ==
    IF Len(keys) = 1 THEN D1(Join(keys[1]), value)
    ELSE D1(Join(keys[1]), SinglePath(Tail(keys), value))

\* The value of an override: a number where the text is one, the text as a
\* string otherwise.
OverrideValue(text) ==
    IF Len(text) = 1 /\ text[1] \in Digits THEN Num(DigitValue(text[1]))
    ELSE Str(text)

\* The overrides of an argument list, in argument order.
Overrides(args) ==
    LET tokens == SelectSeq(args, HasEquals)
    IN [i \in 1..Len(tokens) |->
           SinglePath(split(SubSeq(tokens[i], 1, FirstEquals(tokens[i]) - 1), "."),
                      OverrideValue(SubSeq(tokens[i], FirstEquals(tokens[i]) + 1,
                                           Len(tokens[i]))))]

\* C8: the CLI source of every argument list is the sub-tree under the
\* reader's name of the deep merge, in argument order, of the single-path
\* mappings of the tokens that hold "=", the empty mapping when there is no
\* such sub-tree; no argument list makes the step fail.
CliOverridesNeverFail ==
    call.op = "_read_cli" =>
        /\ Ok(ret)
        /\ LET merged == merge(Overrides(call.args))
           IN ret.val = IF reader.name \in Keys(merged) THEN merged.m[reader.name]
                        ELSE EmptyDict

---------------------------------------------------------------------------
(* Objects. In the object specification a dict is an object on the heap, a *)
(* function from its keys to cells; a cell is a scalar or a sequence (a    *)
(* config value) or a reference to a dict. Two cells that refer to one     *)
(* address share the dict.                                                 *)
Ref(a) == [t |-> "ref", a |-> a]
IsRef(cell) == cell.t = "ref"
object_items(object) == SelectSeq(KeyOrder, LAMBDA key : key \in DOMAIN object)

\* A value as fresh objects: what parsing a file gives.
RECURSIVE Alloc(_, _)
RECURSIVE AllocItems(_, _, _, _)
Alloc(h, v) ==
    IF ~IsDict(v) THEN [h |-> h, cell |-> v]
    ELSE With(AllocItems(Append(h, <<>>), Len(h) + 1, v, items(v)), LAMBDA filled :
           [h |-> filled, cell |-> Ref(Len(h) + 1)])
AllocItems(h, a, v, keys) ==
    IF keys = <<>> THEN h
    ELSE With(Alloc(h, v.m[Head(keys)]), LAMBDA value :
           AllocItems([value.h EXCEPT ![a] = (Head(keys) :> value.cell) @@ @],
                      a, v, Tail(keys)))

\* copy.deepcopy: the dicts reached are copied once each (memo maps a dict
\* copied to its copy), so what is shared inside the original is shared
\* inside the copy, and nothing is shared between original and copy.
RECURSIVE deepcopy(_, _, _)
RECURSIVE deepcopy_items(_, _, _, _, _)
deepcopy(h, memo, x) ==
    IF ~IsRef(x) THEN [h |-> h, memo |-> memo, cell |-> x]
    ELSE IF x.a \in DOMAIN memo THEN [h |-> h, memo |-> memo, cell |-> Ref(memo[x.a])]
    ELSE With(deepcopy_items(Append(h, <<>>), (x.a :> (Len(h) + 1)) @@ memo,
                             x.a, Len(h) + 1, object_items(h[x.a])),
              LAMBDA copied :
                [h |-> copied.h, memo |-> copied.memo, cell |-> Ref(Len(h) + 1)])
deepcopy_items(h, memo, x, y, keys) ==
    IF keys = <<>> THEN [h |-> h, memo |-> memo]
    ELSE With(deepcopy(h, memo, h[x][Head(keys)]), LAMBDA value :
           deepcopy_items([value.h EXCEPT ![y] = (Head(keys) :> value.cell) @@ @],
                          value.memo, x, y, Tail(keys)))

\* _include_configs on objects: a dict is changed in place; a string that
\* names a file becomes the fresh objects of the file's included contents.
RECURSIVE _include_configs_objects(_, _, _, _)
RECURSIVE _include_configs_dict_objects(_, _, _, _, _)
_include_configs_objects(h, config, search_paths, depth) ==
    IF depth > MaxNesting THEN [exc |-> "RecursionError", h |-> h]
    ELSE IF IsRef(config)
         THEN _include_configs_dict_objects(h, config.a, object_items(h[config.a]),
                                            search_paths, depth)
    ELSE With(_include_configs(Disk, config, search_paths, depth), LAMBDA included :
           IF Raised(included) THEN [exc |-> included.exc, h |-> h]
           ELSE IF included.val = config THEN [h |-> h, cell |-> config]
           ELSE Alloc(h, included.val))
_include_configs_dict_objects(h, a, keys, search_paths, depth) ==
    IF keys = <<>> THEN [h |-> h, cell |-> Ref(a)]
    ELSE With(_include_configs_objects(h, h[a][Head(keys)], search_paths, depth + 1),
              LAMBDA value :
                IF Raised(value) THEN value
                ELSE _include_configs_dict_objects(
                         [value.h EXCEPT ![a][Head(keys)] = value.cell],
                         a, Tail(keys), search_paths, depth))

\* dicfg.config.merge on objects. The accumulator is merge's own; a source
\* value adopted into it is adopted as a deep copy.
AdoptShared(h, value) == [h |-> h, memo |-> <<>>, cell |-> value]

Adopt(h, value) == deepcopy(h, <<>>, value)

RECURSIVE merge_into(_, _, _, _)
merge_into(h, acc, source, keys) ==
    IF keys = <<>> THEN h
    ELSE LET key == Head(keys)
         IN IF /\ key \in DOMAIN h[acc]
               /\ IsRef(h[acc][key]) /\ IsRef(h[source][key])
            THEN With(merge_into(h, h[acc][key].a, h[source][key].a,
                                 object_items(h[h[source][key].a])),
                      LAMBDA merged :
                        merge_into(merged, acc, source, Tail(keys)))
            ELSE With(Adopt(h, h[source][key]), LAMBDA adopted :
                   merge_into([adopted.h EXCEPT ![acc] = (key :> adopted.cell) @@ @],
                              acc, source, Tail(keys)))

RECURSIVE merge_objects_from(_, _, _)
merge_objects_from(h, acc, configs) ==
    IF configs = <<>> THEN h
    ELSE With(merge_into(h, acc, Head(configs), object_items(h[Head(configs)])),
              LAMBDA merged : merge_objects_from(merged, acc, Tail(configs)))

merge_objects(h, configs) ==
    [h |-> merge_objects_from(Append(h, <<>>), Len(h) + 1, configs),
     cell |-> Ref(Len(h) + 1)]

\* The comprehension of _fuse_config: the dict at address seeds gets, for
\* every context key, a deep copy of the config's "default" entry, of a new
\* empty dict when it has none.
RECURSIVE SeedObjects(_, _, _, _)
SeedObjects(h, seeds, config, context_keys) ==
    IF context_keys = <<>> THEN h
    ELSE With(IF "default" \in DOMAIN h[config]
              THEN deepcopy(h, <<>>, h[config]["default"])
              ELSE [h |-> Append(h, <<>>), cell |-> Ref(Len(h) + 1)],
              LAMBDA seed :
                SeedObjects([seed.h EXCEPT ![seeds] = (Head(context_keys) :> seed.cell) @@ @],
                            seeds, config, Tail(context_keys)))

\* _fuse_config on objects.
_fuse_config_objects(h, config, context_keys, search_paths) ==
    With(_include_configs_objects(h, config, search_paths, 0), LAMBDA included :
      IF Raised(included) THEN included
      ELSE IF ~IsRef(included.cell) THEN [exc |-> "AttributeError", h |-> included.h]
      ELSE With(SeedObjects(Append(included.h, <<>>), Len(included.h) + 1,
                            included.cell.a, context_keys),
                LAMBDA seeded :
                  With(deepcopy(seeded, <<>>, Ref(Len(included.h) + 1)),
                       LAMBDA fused_config :
                         merge_objects(fused_config.h,
                                       <<fused_config.cell.a, included.cell.a>>))))

\* The contents of a cell, and the dicts it reaches.
RECURSIVE Contents(_, _)
Contents(h, cell) ==
    IF IsRef(cell)
    THEN Dict([key \in DOMAIN h[cell.a] |-> Contents(h, h[cell.a][key])])
    ELSE cell

RECURSIVE Reach(_, _)
Reach(h, cell) ==
    IF IsRef(cell)
    THEN {cell.a} \cup UNION {Reach(h, h[cell.a][key]) : key \in DOMAIN h[cell.a]}
    ELSE {}

---------------------------------------------------------------------------
(* The object specification: a source config whose entries may share their *)
(* dicts is fused, and the caller then changes a value in the result.      *)
SecondObjects == {("lr" :> Num(n)) : n \in 1..MaxInt} \cup {("opt" :> Ref(3))}
ThirdObjects == {("lr" :> Num(1)), ("db" :> Str(DbYml))}
RootObjects ==
    UNION {[ks -> {Ref(2), Ref(3), Num(1)}] : ks \in SUBSET {"default", "train", "test"}}

InitObjects ==
    /\ \E context_keys \in ContextKeys :
          reader = ConfigReader(Disk, "app", Path("configs", ConfigYml), "presets",
                                "default", context_keys, <<>>).val
    /\ argv = <<>>
    /\ \E root \in RootObjects, second \in SecondObjects, third \in ThirdObjects :
          heap = <<root @@ <<>>, second, third>>
    /\ given = Ref(1)
    /\ call = [op |-> "__init__"]
    /\ ret = Val(Null)

FuseConfigObjects ==
    /\ Idle
    /\ \E done \in {_fuse_config_objects(heap, given, reader.context_keys,
                                         _set_search_paths(reader, Null,
                                                           reader.search_paths))} :
          /\ heap' = done.h
          /\ ret' = IF Raised(done) THEN Raise(done.exc) ELSE Val(done.cell)
    /\ call' = [op |-> "_fuse_config"]
    /\ UNCHANGED <<reader, argv, given>>

\* The caller sets an entry of a dict inside the sub-tree of a context key
\* of the fused result.
SetItem ==
    /\ call.op = "_fuse_config" /\ Ok(ret)
    /\ \E context_key \in Range(reader.context_keys) :
       \E a \in Reach(heap, heap[ret.val.a][context_key]) :
       \E key \in {"lr", "opt"} :
          /\ heap' = [heap EXCEPT ![a] = (key :> Num(0)) @@ @]
          /\ call' = [op |-> "setitem", context_key |-> context_key,
                      before |-> Contents(heap, ret.val)]
    /\ UNCHANGED <<reader, argv, given, ret>>

NextObjects == FuseConfigObjects \/ SetItem

SpecObjects == InitObjects /\ [][NextObjects]_vars

\* C5: no two context keys of a fused result share a dict, and changing a
\* value inside the sub-tree of one context key leaves the sub-trees of the
\* other context keys as they were.
ContextKeysShareNothing ==
    /\ call.op = "_fuse_config" /\ Ok(ret) =>
          \A k1, k2 \in Range(reader.context_keys) :
              k1 # k2 => Reach(heap, heap[ret.val.a][k1])
                            \cap Reach(heap, heap[ret.val.a][k2]) = {}
    /\ call.op = "setitem" =>
          \A key \in Range(reader.context_keys) \ {call.context_key} :
              Contents(heap, heap[ret.val.a][key]) = call.before.m[key]

\* "train" and "test" both seeded from one "default" dict that holds a
\* nested dict; a value in the nested dict of "train" was changed, and
\* "test" still holds the default.
ContextKeysShareNothingWitness ==
    /\ call.op = "setitem" /\ call.context_key = "train"
    /\ reader.context_keys = <<"train", "test">>
    /\ DOMAIN heap[1] = {"default"} /\ heap[1]["default"] = Ref(2)
    /\ heap[2] = ("opt" :> Ref(3))
    /\ Contents(heap, heap[ret.val.a]["train"]) # call.before.m["train"]
    /\ Contents(heap, heap[ret.val.a]["train"]).m["opt"] # Contents(heap, Ref(3))
    /\ Contents(heap, heap[ret.val.a]["test"]) = Contents(heap, Ref(2))

---------------------------------------------------------------------------
(* Inputs of the merge specification. *)
MergeLeaves == {Num(n) : n \in 1..MaxInt} \cup {List(<<Num(1)>>)}
MergeInner == {D1("x", Num(1)), D1("y", Num(2))}
MergeArgs == DictsOver({"a", "b"}, MergeLeaves \cup MergeInner)

NoReader == [name |-> "none"]

InitMerge ==
    /\ reader = NoReader
    /\ argv = <<>>
    /\ given = Null
    /\ \E A \in MergeArgs, B \in MergeArgs, C \in MergeArgs :
          call = [op |-> "start", args |-> <<A, B, C>>]
    /\ ret = Val(Null)
    /\ heap = <<>>

MergeAll ==
    /\ call.op = "start"
    /\ call' = [call EXCEPT !.op = "merge_all"]
    /\ ret' = Val(merge(call.args))
    /\ UNCHANGED <<reader, argv, given, heap>>

MergeFirstTwo ==
    /\ call.op = "start"
    /\ call' = [call EXCEPT !.op = "merge_first_two"]
    /\ ret' = Val(merge(<<call.args[1], call.args[2]>>))
    /\ UNCHANGED <<reader, argv, given, heap>>

MergeThird ==
    /\ call.op = "merge_first_two"
    /\ call' = [call EXCEPT !.op = "merge_third"]
    /\ ret' = Val(merge(<<ret.val, call.args[3]>>))
    /\ UNCHANGED <<reader, argv, given, heap>>

NextMerge == MergeAll \/ MergeFirstTwo \/ MergeThird

SpecMerge == InitMerge /\ [][NextMerge]_vars

\* C6: merge(A, B, C) equals merge(merge(A, B), C) for all mappings A, B, C:
\* merging the third source into the merge of the first two gives what the
\* merge of all three gives.
MergeAssociative ==
    call.op = "merge_third" => ret = Val(merge(call.args))

\* A case of C6 where a mapping, a scalar and a mapping meet at one key.
MergeAssociativeWitness ==
    /\ call.op = "merge_third"
    /\ Has(call.args[1], "a") /\ Has(call.args[2], "a") /\ Has(call.args[3], "a")
    /\ IsDict(call.args[1].m["a"])
    /\ ~IsDict(call.args[2].m["a"])
    /\ IsDict(call.args[3].m["a"])
    /\ ret.val.m["a"] = call.args[3].m["a"]

====
